---- MODULE Spec2Model ----
(***************************************************************************)
(* Model of react-native-codegen's ObjC++ header generator for regular     *)
(* structs (serializeRegularStruct.js).                                    *)
(*                                                                         *)
(* Generated text is a sequence of tokens.  Every literal fragment of a    *)
(* JavaScript template string is one token, every interpolated input       *)
(* string (module name, alias name, property name, accessor expression)    *)
(* is one token, and string concatenation is \o.  A '*' that ends a        *)
(* literal is a token of its own, so that endsWith('*') reads the last     *)
(* token.  A call that can throw returns [threw, str]: threw = TRUE        *)
(* carries the Error message, threw = FALSE the returned string.           *)
(***************************************************************************)
EXTENDS Integers, Sequences, FiniteSets, TLC

VARIABLES
    moduleName,      \* serializeRegularStruct's moduleName argument
    struct,          \* serializeRegularStruct's struct argument
    pc,              \* "ready", "done" (returned) or "threw"
    declaration,     \* the returned declaration segment
    methods,         \* the returned methods segment
    error,           \* the message of the Error thrown
    mpc,             \* mapper trace: "idle" or "called"
    typeAnnotation,  \* the typeAnnotation argument of the traced mapper call
    value,           \* toObjCValue's value argument in the traced call
    depth,           \* toObjCValue's depth argument in the traced call
    isOptional,      \* the isOptional argument of the traced call
    objcType,        \* toObjCType's result for the traced call
    objcValue        \* toObjCValue's result for the traced call

vars == <<moduleName, struct, pc, declaration, methods, error,
          mpc, typeAnnotation, value, depth, isOptional, objcType, objcValue>>

structVars == <<pc, declaration, methods, error>>
callVars == <<mpc, typeAnnotation, value, depth, isOptional, objcType, objcValue>>

-----------------------------------------------------------------------------
(* Bounds and input alphabets *)

MaxDepth == 3
MaxProps == 2

ModuleNames == {"Geometry", "SampleTurboModule"}
StructNames == {"Options"}
AliasNames == {"point", "Size"}
PropertyNames == {"x", "id"}

ScalarTypes ==
    {"StringTypeAnnotation", "NumberTypeAnnotation", "FloatTypeAnnotation",
     "Int32TypeAnnotation", "DoubleTypeAnnotation", "BooleanTypeAnnotation"}

\* A tag the switch statements have no case for.
UnknownTypes == {"FunctionTypeAnnotation"}

\* Names of ReservedFunctionValueTypeAnnotation: the supported one and another.
ReservedNames == {"RootTag", "SurfaceId"}

Annotation(type, nullable, name, elementType) ==
    [type |-> type, nullable |-> nullable, name |-> name, elementType |-> elementType]

\* Annotations without an element type; elementType = <<>> is JavaScript's null.
LeafAnnotations ==
    {Annotation(t, n, "", <<>>) :
        t \in ScalarTypes \cup UnknownTypes
                \cup {"GenericObjectTypeAnnotation", "ArrayTypeAnnotation"},
        n \in BOOLEAN}
    \cup {Annotation("ReservedFunctionValueTypeAnnotation", n, r, <<>>) :
            r \in ReservedNames, n \in BOOLEAN}
    \cup {Annotation("TypeAliasTypeAnnotation", n, a, <<>>) :
            a \in AliasNames, n \in BOOLEAN}

\* Annotations with arrays nested at most d deep.
RECURSIVE Annotations(_)
Annotations(d) ==
    IF d = 0 THEN LeafAnnotations
    ELSE LeafAnnotations
         \cup {Annotation("ArrayTypeAnnotation", n, "", <<e>>) :
                 e \in Annotations(d - 1), n \in BOOLEAN}

Property(name, ann, optional) ==
    [name |-> name, typeAnnotation |-> ann, optional |-> optional]

-----------------------------------------------------------------------------
(* Strings *)

Ok(str) == [threw |-> FALSE, str |-> str]
Throw(message) == [threw |-> TRUE, str |-> message]

\* Array.prototype.join: parts is a sequence of token sequences.
RECURSIVE Join(_, _)
Join(parts, sep) ==
    IF Len(parts) = 0 THEN <<>>
    ELSE IF Len(parts) = 1 THEN parts[1]
    ELSE parts[1] \o sep \o Join(Tail(parts), sep)

\* String.prototype.endsWith('*')
EndsWithStar(str) == Len(str) > 0 /\ str[Len(str)] = "*"

-----------------------------------------------------------------------------
(* ../Utils *)

\* capitalize: upper-cases the first character (on the alias names used here).
Capitalize(name) == IF name = "point" THEN "Point" ELSE name

\* getSafePropertyName: a property called 'id' is renamed 'id_'.
GetSafePropertyName(property) ==
    IF property.name = "id" THEN property.name \o "_" ELSE property.name

\* getNamespacedStructName: JS::Native<moduleName>::<structName>
GetNamespacedStructName(module, structName) ==
    <<"JS::Native", module, "::", structName>>

-----------------------------------------------------------------------------
(* toObjCType *)

IsRequired(ann, optional) == ~ann.nullable /\ ~optional

wrapFollyOptional_always(isRequired, type) ==
    <<"folly::Optional<">> \o type \o <<">">>

wrapFollyOptional(isRequired, type) ==
    IF isRequired THEN type ELSE <<"folly::Optional<">> \o type \o <<">">>

GenericObjectType(isRequired) ==
    IF isRequired THEN <<"id<NSObject> ">> ELSE <<"id<NSObject> _Nullable">>

UntypedArrayType_alwaysNullable(isRequired) == <<"id<NSObject> _Nullable">>

UntypedArrayType(isRequired) ==
    IF isRequired THEN <<"id<NSObject> ">> ELSE <<"id<NSObject> _Nullable">>

TypeAliasType(module, ann, isRequired) ==
    LET structName == Capitalize(ann.name)
        namespacedStructName == GetNamespacedStructName(module, structName)
    IN  wrapFollyOptional(isRequired, namespacedStructName)

\* toObjCType with the property's optional flag handed down to the element.
RECURSIVE ToObjCType_optionalElement(_, _, _)
ToObjCType_optionalElement(module, ann, optional) ==
    LET isRequired == IsRequired(ann, optional)
    IN  CASE ann.type = "ReservedFunctionValueTypeAnnotation" ->
               IF ann.name = "RootTag"
               THEN Ok(wrapFollyOptional(isRequired, <<"double">>))
               ELSE Throw(<<"Unknown prop type, found: ", ann.name, "\"">>)
          [] ann.type = "StringTypeAnnotation" -> Ok(<<"NSString ", "*">>)
          [] ann.type \in {"NumberTypeAnnotation", "FloatTypeAnnotation",
                           "Int32TypeAnnotation", "DoubleTypeAnnotation"} ->
               Ok(wrapFollyOptional(isRequired, <<"double">>))
          [] ann.type = "BooleanTypeAnnotation" ->
               Ok(wrapFollyOptional(isRequired, <<"bool">>))
          [] ann.type = "GenericObjectTypeAnnotation" ->
               Ok(GenericObjectType(isRequired))
          [] ann.type = "ArrayTypeAnnotation" ->
               IF ann.elementType = <<>>
               THEN Ok(UntypedArrayType(isRequired))
               ELSE LET element == ToObjCType_optionalElement(
                                       module, ann.elementType[1], optional)
                    IN  IF element.threw THEN element
                        ELSE Ok(wrapFollyOptional(isRequired,
                                   <<"facebook::react::LazyVector<">>
                                       \o element.str \o <<">">>))
          [] ann.type = "TypeAliasTypeAnnotation" ->
               Ok(TypeAliasType(module, ann, isRequired))
          [] OTHER ->
               Throw(<<"Couldn't convert into ObjC type: ", ann.type, "\"">>)

RECURSIVE ToObjCType(_, _, _)
ToObjCType(module, ann, optional) ==
    LET isRequired == IsRequired(ann, optional)
    IN  CASE ann.type = "ReservedFunctionValueTypeAnnotation" ->
               IF ann.name = "RootTag"
               THEN Ok(wrapFollyOptional(isRequired, <<"double">>))
               ELSE Throw(<<"Unknown prop type, found: ", ann.name, "\"">>)
          [] ann.type = "StringTypeAnnotation" -> Ok(<<"NSString ", "*">>)
          [] ann.type = "NumberTypeAnnotation" ->
               Ok(wrapFollyOptional(isRequired, <<"double">>))
          [] ann.type = "FloatTypeAnnotation" ->
               Ok(wrapFollyOptional(isRequired, <<"double">>))
          [] ann.type = "Int32TypeAnnotation" ->
               Ok(wrapFollyOptional(isRequired, <<"double">>))
          [] ann.type = "DoubleTypeAnnotation" ->
               Ok(wrapFollyOptional(isRequired, <<"double">>))
          [] ann.type = "BooleanTypeAnnotation" ->
               Ok(wrapFollyOptional(isRequired, <<"bool">>))
          [] ann.type = "GenericObjectTypeAnnotation" ->
               Ok(GenericObjectType(isRequired))
          [] ann.type = "ArrayTypeAnnotation" ->
               IF ann.elementType = <<>>
               THEN Ok(UntypedArrayType(isRequired))
               ELSE \* the element is mapped with isOptional defaulted to false
                    LET element == ToObjCType(module, ann.elementType[1], FALSE)
                    IN  IF element.threw THEN element
                        ELSE Ok(wrapFollyOptional(isRequired,
                                   <<"facebook::react::LazyVector<">>
                                       \o element.str \o <<">">>))
          [] ann.type = "TypeAliasTypeAnnotation" ->
               Ok(TypeAliasType(module, ann, isRequired))
          [] OTHER ->
               Throw(<<"Couldn't convert into ObjC type: ", ann.type, "\"">>)

-----------------------------------------------------------------------------
(* toObjCValue *)

\* [value, arg].filter(Boolean).join(', '): an empty or undefined part is dropped;
\* arg = <<>> is an omitted arg.
BridgingArgs(accessor, arg) ==
    Join((IF accessor = "" THEN <<>> ELSE << <<accessor>> >>)
             \o (IF arg = <<>> THEN <<>> ELSE <<arg>>),
         <<", ">>)

RCTBridgingTo_alwaysRequired(isRequired, accessor, type, arg) ==
    <<"RCTBridgingTo", type, "(">> \o BridgingArgs(accessor, arg) \o <<")">>

RCTBridgingTo(isRequired, accessor, type, arg) ==
    IF isRequired
    THEN <<"RCTBridgingTo", type, "(">> \o BridgingArgs(accessor, arg) \o <<")">>
    ELSE <<"RCTBridgingToOptional", type, "(">>
             \o BridgingArgs(accessor, arg) \o <<")">>

LocalVarName_noDepth(d) == "itemValue"

LocalVarName(d) == "itemValue_" \o ToString(d)

\* ^<elementObjCType>(id <localVarName>) { return <elementObjCValue>; }
ElementBlock(elementObjCType, localVarName, elementObjCValue) ==
    <<"^">> \o elementObjCType \o <<"(id ", localVarName, ") { return ">>
        \o elementObjCValue \o <<"; }">>

TypeAliasValue_rawName(module, ann, isRequired, accessor) ==
    LET namespacedStructName == GetNamespacedStructName(module, ann.name)
    IN  IF ~isRequired
        THEN <<"(", "p", " == nil ? folly::none : folly::make_optional(">>
                 \o namespacedStructName \o <<"(", "p", ")", ")", ")">>
        ELSE namespacedStructName \o <<"(", "p", ")">>

\* The accessor handed to toObjCValue is not used: the text names p.
TypeAliasValue(module, ann, isRequired, accessor) ==
    LET structName == Capitalize(ann.name)
        namespacedStructName == GetNamespacedStructName(module, structName)
    IN  IF ~isRequired
        THEN <<"(", "p", " == nil ? folly::none : folly::make_optional(">>
                 \o namespacedStructName \o <<"(", "p", ")", ")", ")">>
        ELSE namespacedStructName \o <<"(", "p", ")">>

UntypedArrayValue(isRequired, accessor) == <<accessor>>

RECURSIVE ToObjCValue(_, _, _, _, _)
ToObjCValue(module, ann, accessor, d, optional) ==
    LET isRequired == IsRequired(ann, optional)
    IN  CASE ann.type = "ReservedFunctionValueTypeAnnotation" ->
               IF ann.name = "RootTag"
               THEN Ok(RCTBridgingTo(isRequired, accessor, "Double", <<>>))
               ELSE Throw(<<"Couldn't convert into ObjC type: ", ann.type, "\"">>)
          [] ann.type = "StringTypeAnnotation" ->
               Ok(RCTBridgingTo(isRequired, accessor, "String", <<>>))
          [] ann.type = "NumberTypeAnnotation" ->
               Ok(RCTBridgingTo(isRequired, accessor, "Double", <<>>))
          [] ann.type = "FloatTypeAnnotation" ->
               Ok(RCTBridgingTo(isRequired, accessor, "Double", <<>>))
          [] ann.type = "Int32TypeAnnotation" ->
               Ok(RCTBridgingTo(isRequired, accessor, "Double", <<>>))
          [] ann.type = "DoubleTypeAnnotation" ->
               Ok(RCTBridgingTo(isRequired, accessor, "Double", <<>>))
          [] ann.type = "BooleanTypeAnnotation" ->
               Ok(RCTBridgingTo(isRequired, accessor, "Bool", <<>>))
          [] ann.type = "GenericObjectTypeAnnotation" -> Ok(<<accessor>>)
          [] ann.type = "ArrayTypeAnnotation" ->
               IF ann.elementType = <<>>
               THEN Ok(UntypedArrayValue(isRequired, accessor))
               ELSE LET elementType == ann.elementType[1]
                        localVarName == LocalVarName(d)
                        elementObjCType == ToObjCType(module, elementType, FALSE)
                        elementObjCValue ==
                            ToObjCValue(module, elementType, localVarName, d + 1, FALSE)
                    IN  IF elementObjCType.threw THEN elementObjCType
                        ELSE IF elementObjCValue.threw THEN elementObjCValue
                        ELSE Ok(RCTBridgingTo(isRequired, accessor, "Vec",
                                   ElementBlock(elementObjCType.str, localVarName,
                                                elementObjCValue.str)))
          [] ann.type = "TypeAliasTypeAnnotation" ->
               Ok(TypeAliasValue(module, ann, isRequired, accessor))
          [] OTHER ->
               Throw(<<"Couldn't convert into ObjC value: ", ann.type, "\"">>)

-----------------------------------------------------------------------------
(* Templates *)

StructTemplate(module, structName, structProperties) ==
    <<"\nnamespace JS {\n  namespace Native", module, " {\n    struct ",
      structName, " {\n      ">>
    \o structProperties
    \o <<"\n\n      ", structName,
         "(NSDictionary *const v) : _v(v) {}\n    private:\n      NSDictionary *_v;\n    };\n  }\n}\n\n@interface RCTCxxConvert (Native",
         module, "_", structName,
         ")\n+ (RCTManagedPointer *)JS_Native", module, "_", structName,
         ":(id)json;\n@end\n">>

MethodTemplate(returnType, returnValue, module, structName, propertyName) ==
    <<"\ninline ">> \o returnType
    \o <<"JS::Native", module, "::", structName, "::", propertyName,
         "() const\n{\n  id const p = _v[@\"", propertyName, "\"];\n  return ">>
    \o returnValue \o <<";\n}\n">>

-----------------------------------------------------------------------------
(* serializeRegularStruct *)

\* ' '.repeat(returnType.endsWith('*') ? 0 : 1)
Padding(returnType) == IF EndsWithStar(returnType) THEN <<>> ELSE <<" ">>

\* The callback of the first map: one accessor declaration.
DeclarationLine(module, property) ==
    LET propName == GetSafePropertyName(property)
        returnType == ToObjCType(module, property.typeAnnotation, property.optional)
    IN  IF returnType.threw THEN returnType
        ELSE Ok(returnType.str \o Padding(returnType.str)
                    \o <<propName, "() const;">>)

MethodBlock_requiredType(module, structName, property) ==
    LET propName == GetSafePropertyName(property)
        returnType == ToObjCType(module, property.typeAnnotation, FALSE)
        returnValue == ToObjCValue(module, property.typeAnnotation, "p", 0,
                                   property.optional)
    IN  IF returnType.threw THEN returnType
        ELSE IF returnValue.threw THEN returnValue
        ELSE Ok(MethodTemplate(returnType.str \o Padding(returnType.str),
                               returnValue.str, module, structName, propName))

\* The callback of the second map: one inline method.
MethodBlock(module, structName, property) ==
    LET propName == GetSafePropertyName(property)
        returnType == ToObjCType(module, property.typeAnnotation, property.optional)
        returnValue == ToObjCValue(module, property.typeAnnotation, "p", 0,
                                   property.optional)
    IN  IF returnType.threw THEN returnType
        ELSE IF returnValue.threw THEN returnValue
        ELSE Ok(MethodTemplate(returnType.str \o Padding(returnType.str),
                               returnValue.str, module, structName, propName))

\* Array.prototype.map with a callback that may throw: the first throw, in
\* property order, ends the map.
MapThrew(results) == \E i \in DOMAIN results : results[i].threw
FirstThrow(results) ==
    results[CHOOSE i \in DOMAIN results :
               results[i].threw /\ \A j \in 1..(i - 1) : ~results[j].threw]
Strings(results) == [i \in DOMAIN results |-> results[i].str]

DeclarationLines_reversed(module, properties) ==
    [i \in DOMAIN properties |->
        DeclarationLine(module, properties[Len(properties) + 1 - i])]

DeclarationLines(module, properties) ==
    [i \in DOMAIN properties |-> DeclarationLine(module, properties[i])]

MethodBlocks(module, structName, properties) ==
    [i \in DOMAIN properties |-> MethodBlock(module, structName, properties[i])]

\* serializeRegularStruct that leaves out the properties it cannot map.
SerializeRegularStruct_skipUnknown(module, s) ==
    LET known == SelectSeq(s.properties,
                     LAMBDA p : ~ToObjCType(module, p.typeAnnotation, p.optional).threw)
        lines == DeclarationLines(module, known)
        blocks == MethodBlocks(module, s.name, known)
    IN  [threw |-> FALSE, error |-> <<>>,
         declaration |-> StructTemplate(module, s.name,
                             Join(Strings(lines), <<"\n      ">>)),
         methods |-> Join(Strings(blocks), <<"\n">>)]

SerializeRegularStruct(module, s) ==
    LET lines == DeclarationLines(module, s.properties)
        blocks == MethodBlocks(module, s.name, s.properties)
    IN  IF MapThrew(lines)
        THEN [threw |-> TRUE, error |-> FirstThrow(lines).str,
              declaration |-> <<>>, methods |-> <<>>]
        ELSE IF MapThrew(blocks)
        THEN [threw |-> TRUE, error |-> FirstThrow(blocks).str,
              declaration |-> <<>>, methods |-> <<>>]
        ELSE [threw |-> FALSE, error |-> <<>>,
              declaration |-> StructTemplate(module, s.name,
                                  Join(Strings(lines), <<"\n      ">>)),
              methods |-> Join(Strings(blocks), <<"\n">>)]

-----------------------------------------------------------------------------
(* The generator run on one struct *)

\* Annotations of the properties of the structs serialized: a string (ends in
\* '*'), wrapped and unwrapped primitives, an alias, an opaque value, arrays,
\* and the ways of carrying a tag outside the closed set: at top level, in an
\* array element one and two levels down, and as an unknown reserved name.
SerializedAnnotations ==
    {Annotation("StringTypeAnnotation", FALSE, "", <<>>),
     Annotation("BooleanTypeAnnotation", FALSE, "", <<>>),
     Annotation("TypeAliasTypeAnnotation", FALSE, "point", <<>>),
     Annotation("ArrayTypeAnnotation", FALSE, "",
                <<Annotation("DoubleTypeAnnotation", TRUE, "", <<>>)>>),
     Annotation("FunctionTypeAnnotation", FALSE, "", <<>>),
     Annotation("ArrayTypeAnnotation", FALSE, "",
                <<Annotation("FunctionTypeAnnotation", FALSE, "", <<>>)>>),
     Annotation("ArrayTypeAnnotation", FALSE, "",
                <<Annotation("ArrayTypeAnnotation", FALSE, "",
                    <<Annotation("ReservedFunctionValueTypeAnnotation", FALSE,
                                 "SurfaceId", <<>>)>>)>>),
     Annotation("ReservedFunctionValueTypeAnnotation", FALSE, "SurfaceId", <<>>),
     Annotation("GenericObjectTypeAnnotation", TRUE, "", <<>>),
     Annotation("NumberTypeAnnotation", FALSE, "", <<>>)}

SerializedProperties ==
    {Property(n, a, o) : n \in PropertyNames, a \in SerializedAnnotations,
                         o \in BOOLEAN}

Structs ==
    {[name |-> n, properties |-> ps] :
        n \in StructNames,
        ps \in UNION {[1..k -> SerializedProperties] : k \in 0..MaxProps}}

NoAnnotation == Annotation("", FALSE, "", <<>>)

Idle ==
    /\ mpc = "idle"
    /\ typeAnnotation = NoAnnotation
    /\ value = ""
    /\ depth = 0
    /\ isOptional = FALSE
    /\ objcType = Ok(<<>>)
    /\ objcValue = Ok(<<>>)

Ready ==
    /\ pc = "ready"
    /\ declaration = <<>>
    /\ methods = <<>>
    /\ error = <<>>

Init ==
    /\ moduleName \in ModuleNames
    /\ struct \in Structs
    /\ Ready
    /\ Idle

\* serializeRegularStruct(moduleName, struct) returns {methods, declaration}.
SerializeReturns ==
    /\ pc = "ready"
    /\ LET out == SerializeRegularStruct(moduleName, struct)
       IN  /\ ~out.threw
           /\ pc' = "done"
           /\ declaration' = out.declaration
           /\ methods' = out.methods
           /\ error' = error
    /\ UNCHANGED <<moduleName, struct>>
    /\ UNCHANGED callVars

\* serializeRegularStruct(moduleName, struct) throws.
SerializeThrows ==
    /\ pc = "ready"
    /\ LET out == SerializeRegularStruct(moduleName, struct)
       IN  /\ out.threw
           /\ pc' = "threw"
           /\ error' = out.error
           /\ UNCHANGED <<declaration, methods>>
    /\ UNCHANGED <<moduleName, struct>>
    /\ UNCHANGED callVars

Next == SerializeReturns \/ SerializeThrows

Spec == Init /\ [][Next]_vars

-----------------------------------------------------------------------------
(* The calls of toObjCType and toObjCValue made for one property *)

InitMap ==
    /\ moduleName \in ModuleNames
    /\ struct \in {[name |-> n, properties |-> <<Property(pn, a, o)>>] :
                      n \in StructNames, pn \in {"x"},
                      a \in Annotations(MaxDepth), o \in BOOLEAN}
    /\ Ready
    /\ Idle

Call(ann, accessor, d, optional) ==
    /\ mpc' = "called"
    /\ typeAnnotation' = ann
    /\ value' = accessor
    /\ depth' = d
    /\ isOptional' = optional
    /\ objcType' = ToObjCType(moduleName, ann, optional)
    /\ objcValue' = ToObjCValue(moduleName, ann, accessor, d, optional)
    /\ UNCHANGED <<moduleName, struct>>
    /\ UNCHANGED structVars

\* The calls serializeRegularStruct makes for a property: accessor 'p', depth 0.
MapProperty ==
    /\ mpc = "idle"
    /\ \E i \in DOMAIN struct.properties :
          Call(struct.properties[i].typeAnnotation, "p", 0,
               struct.properties[i].optional)

\* The recursive calls on the element type of an array.
MapElement ==
    /\ mpc = "called"
    /\ typeAnnotation.type = "ArrayTypeAnnotation"
    /\ typeAnnotation.elementType # <<>>
    /\ Call(typeAnnotation.elementType[1], LocalVarName(depth), depth + 1, FALSE)

NextMap == MapProperty \/ MapElement

SpecMap == InitMap /\ [][NextMap]_vars

-----------------------------------------------------------------------------
(* Reading generated text *)

Contains(str, token) == \E i \in DOMAIN str : str[i] = token

Occurrences(str, token) == {i \in DOMAIN str : str[i] = token}

\* The index of the n-th occurrence of token in str.
NthIndex(str, token, n) ==
    CHOOSE i \in Occurrences(str, token) :
        Cardinality({j \in Occurrences(str, token) : j <= i}) = n

\* The tokens of str at the indices of the set, in order.
RECURSIVE Pick(_, _)
Pick(str, indices) ==
    IF indices = {} THEN <<>>
    ELSE LET first == CHOOSE i \in indices : \A j \in indices : i <= j
         IN  <<str[first]>> \o Pick(str, indices \ {first})

IsWrapped(type) == Len(type) > 0 /\ type[1] = "folly::Optional<"

UsesOptionalVariant(expr) == Len(expr) > 0 /\ expr[1] = "RCTBridgingToOptional"

UsesRequiredVariant(expr) == Len(expr) > 0 /\ expr[1] = "RCTBridgingTo"

UsesMakeOptional(expr) ==
    Contains(expr, " == nil ? folly::none : folly::make_optional(")

\* The qualified struct names in a text: the four tokens from each JS::Native.
QualifiedNames(str) ==
    {SubSeq(str, i, i + 3) : i \in Occurrences(str, "JS::Native")}

\* The names of the block parameters of a value expression, outermost first.
TempNames(expr) ==
    Pick(expr, {i + 1 : i \in Occurrences(expr, "(id ")})

\* The text between LazyVector< and its closing > in the type of an array.
ElementRepr(type) ==
    LET vector == IF IsWrapped(type) THEN SubSeq(type, 2, Len(type) - 1) ELSE type
    IN  SubSeq(vector, 2, Len(vector) - 1)

\* The number of arrays with an element type on the way down an annotation.
RECURSIVE Nesting(_)
Nesting(ann) ==
    IF ann.type = "ArrayTypeAnnotation" /\ ann.elementType # <<>>
    THEN 1 + Nesting(ann.elementType[1])
    ELSE 0

\* The annotation at the end of the chain of element types.
RECURSIVE Innermost(_)
Innermost(ann) ==
    IF ann.type = "ArrayTypeAnnotation" /\ ann.elementType # <<>>
    THEN Innermost(ann.elementType[1])
    ELSE ann

\* The closed set of tags of section 3 of the specification.
ClosedSet ==
    ScalarTypes \cup {"ReservedFunctionValueTypeAnnotation",
                      "GenericObjectTypeAnnotation", "ArrayTypeAnnotation",
                      "TypeAliasTypeAnnotation"}

RECURSIVE Unrecognized(_)
Unrecognized(ann) ==
    \/ ann.type \notin ClosedSet
    \/ ann.type = "ReservedFunctionValueTypeAnnotation" /\ ann.name # "RootTag"
    \/ /\ ann.type = "ArrayTypeAnnotation"
       /\ ann.elementType # <<>>
       /\ Unrecognized(ann.elementType[1])

Called == mpc = "called" /\ ~objcType.threw /\ ~objcValue.threw

NotRequired == typeAnnotation.nullable \/ isOptional

\* Variants whose type and conversion both have an optional form.
Convertible ==
    \/ typeAnnotation.type \in ScalarTypes \ {"StringTypeAnnotation"}
    \/ typeAnnotation.type = "ReservedFunctionValueTypeAnnotation"
    \/ typeAnnotation.type = "ArrayTypeAnnotation" /\ typeAnnotation.elementType # <<>>

-----------------------------------------------------------------------------
(* Claims about the two mappers, under SpecMap *)

\* C1 as stated: for every property that is nullable or optional, whatever its
\* variant, the type is wrapped in folly::Optional and the value uses the
\* RCTBridgingToOptional conversion.
C1_WrappedAndOptionalForEveryVariant ==
    (Called /\ depth = 0 /\ NotRequired)
        => (IsWrapped(objcType.str) /\ UsesOptionalVariant(objcValue.str))

\* C1 amended: for number, float, int32, double, boolean, RootTag and arrays
\* with an element type, the type is wrapped if and only if the value uses the
\* optional conversion, and both exactly when the annotation is nullable or
\* the optional flag is set.  A string is never wrapped while its conversion
\* follows required-ness; a generic object and an untyped array are neither
\* wrapped nor converted; a type alias is wrapped exactly when not required
\* and its value then uses folly::make_optional, never an RCTBridging call.
C1_TypeAndValueAgree ==
    Called =>
        /\ Convertible =>
              /\ IsWrapped(objcType.str) <=> UsesOptionalVariant(objcValue.str)
              /\ IsWrapped(objcType.str) <=> NotRequired
              /\ UsesRequiredVariant(objcValue.str) <=> ~NotRequired
        /\ typeAnnotation.type = "StringTypeAnnotation" =>
              /\ ~IsWrapped(objcType.str)
              /\ UsesOptionalVariant(objcValue.str) <=> NotRequired
              /\ UsesRequiredVariant(objcValue.str) <=> ~NotRequired
        /\ (\/ typeAnnotation.type = "GenericObjectTypeAnnotation"
            \/ /\ typeAnnotation.type = "ArrayTypeAnnotation"
               /\ typeAnnotation.elementType = <<>>) =>
              /\ ~IsWrapped(objcType.str)
              /\ ~UsesOptionalVariant(objcValue.str)
              /\ ~UsesRequiredVariant(objcValue.str)
        /\ typeAnnotation.type = "TypeAliasTypeAnnotation" =>
              /\ IsWrapped(objcType.str) <=> NotRequired
              /\ UsesMakeOptional(objcValue.str) <=> NotRequired
              /\ ~UsesOptionalVariant(objcValue.str)
              /\ ~UsesRequiredVariant(objcValue.str)

C1_Witness ==
    /\ Called
    /\ typeAnnotation.type = "ArrayTypeAnnotation"
    /\ typeAnnotation.elementType # <<>>
    /\ ~typeAnnotation.nullable
    /\ isOptional
    /\ IsWrapped(objcType.str)
    /\ UsesOptionalVariant(objcValue.str)

\* C2: a required scalar is converted by the required variant RCTBridgingTo<Type>
\* applied to the accessor expression alone, and its type is the bare primitive
\* with no folly::Optional wrapper.
C2_RequiredScalar ==
    (mpc = "called" /\ typeAnnotation.type \in ScalarTypes /\ ~NotRequired) =>
        /\ ~objcType.threw /\ ~objcValue.threw
        /\ \E type \in {"String", "Double", "Bool"} :
              objcValue.str = <<"RCTBridgingTo", type, "(", value, ")">>
        /\ objcType.str \in {<<"NSString ", "*">>, <<"double">>, <<"bool">>}
        /\ ~Contains(objcType.str, "folly::Optional<")

C2_Witness ==
    /\ mpc = "called"
    /\ typeAnnotation.type = "Int32TypeAnnotation"
    /\ ~NotRequired
    /\ value = "itemValue_1"
    /\ objcValue.str = <<"RCTBridgingTo", "Double", "(", "itemValue_1", ")">>
    /\ objcType.str = <<"double">>

\* C3: for arrays nested N deep, the value expression built from depth 0 has
\* exactly the N block parameters itemValue_0 .. itemValue_{N-1}, one per
\* level, all different.
C3_DistinctTemporaries ==
    (Called /\ depth = 0) =>
        LET names == TempNames(objcValue.str)
        IN  /\ Len(names) = Nesting(typeAnnotation)
            /\ \A i \in DOMAIN names : names[i] = "itemValue_" \o ToString(i - 1)
            /\ \A i, j \in DOMAIN names : i # j => names[i] # names[j]

C3_Witness ==
    /\ Called
    /\ depth = 0
    /\ Nesting(typeAnnotation) = MaxDepth
    /\ Len(TempNames(objcValue.str)) = MaxDepth

\* C4: wherever a type alias is mapped, as a property or as an array element
\* at any depth, the qualified names in the type and in the value are
\* getNamespacedStructName(moduleName, capitalize(aliasName)) and no other.
C4_AliasQualifiedName ==
    (Called /\ Innermost(typeAnnotation).type = "TypeAliasTypeAnnotation") =>
        LET qualified == GetNamespacedStructName(
                             moduleName, Capitalize(Innermost(typeAnnotation).name))
        IN  /\ QualifiedNames(objcType.str) = {qualified}
            /\ QualifiedNames(objcValue.str) = {qualified}

C4_Witness ==
    /\ Called
    /\ depth = 0
    /\ Nesting(typeAnnotation) = 2
    /\ Innermost(typeAnnotation).type = "TypeAliasTypeAnnotation"
    /\ Innermost(typeAnnotation).name = "point"
    /\ QualifiedNames(objcValue.str) = {<<"JS::Native", moduleName, "::", "Point">>}

\* C7 as stated: the value of a type alias is built from the accessor
\* expression given: <Struct>(<accessor>) when required, and
\* (<accessor> == nil ? folly::none : folly::make_optional(<Struct>(<accessor>)))
\* when not, also when the accessor is a block parameter itemValue_<depth>.
C7_AliasUsesAccessor ==
    (Called /\ typeAnnotation.type = "TypeAliasTypeAnnotation") =>
        LET qualified == GetNamespacedStructName(
                             moduleName, Capitalize(typeAnnotation.name))
        IN  objcValue.str =
                IF NotRequired
                THEN <<"(", value, " == nil ? folly::none : folly::make_optional(">>
                         \o qualified \o <<"(", value, ")", ")", ")">>
                ELSE qualified \o <<"(", value, ")">>

\* C8 as stated: for every element annotation the element inside LazyVector<>
\* carries no optional wrapper, and the array is wrapped exactly when it is
\* not required.
C8_ElementNeverWrapped ==
    (Called /\ typeAnnotation.type = "ArrayTypeAnnotation"
            /\ typeAnnotation.elementType # <<>>) =>
        /\ ~IsWrapped(ElementRepr(objcType.str))
        /\ IsWrapped(objcType.str) <=> NotRequired

\* C8 amended: the element inside LazyVector<> is wrapped only when the
\* element annotation is itself nullable (and then it is, unless the element
\* is a string, a generic object or an untyped array); the property's optional
\* flag and the array's own nullability never wrap the element; the array as
\* a whole is wrapped exactly when it is not required.
C8_ElementWrappedByItsOwnNullability ==
    (Called /\ typeAnnotation.type = "ArrayTypeAnnotation"
            /\ typeAnnotation.elementType # <<>>) =>
        LET element == typeAnnotation.elementType[1]
            plain == \/ element.type \in {"StringTypeAnnotation",
                                          "GenericObjectTypeAnnotation"}
                     \/ /\ element.type = "ArrayTypeAnnotation"
                        /\ element.elementType = <<>>
        IN  /\ IsWrapped(ElementRepr(objcType.str))
                  <=> (element.nullable /\ ~plain)
            /\ IsWrapped(objcType.str) <=> NotRequired
            /\ LET vector == <<"facebook::react::LazyVector<">>
                                  \o ElementRepr(objcType.str) \o <<">">>
               IN  objcType.str \in {vector, <<"folly::Optional<">> \o vector \o <<">">>}

C8_Witness ==
    /\ Called
    /\ depth = 0
    /\ typeAnnotation.type = "ArrayTypeAnnotation"
    /\ typeAnnotation.elementType # <<>>
    /\ ~typeAnnotation.elementType[1].nullable
    /\ typeAnnotation.elementType[1].type = "DoubleTypeAnnotation"
    /\ isOptional
    /\ ElementRepr(objcType.str) = <<"double">>
    /\ IsWrapped(objcType.str)

\* C9: an array with no element type is mapped like a generic object with the
\* same nullable flag and optional flag: the same opaque type (_Nullable
\* exactly when not required) and the accessor expression unchanged.
C9_UntypedArrayLikeGenericObject ==
    (mpc = "called" /\ typeAnnotation.type = "ArrayTypeAnnotation"
                    /\ typeAnnotation.elementType = <<>>) =>
        LET generic == Annotation("GenericObjectTypeAnnotation",
                                  typeAnnotation.nullable, "", <<>>)
        IN  /\ objcType = ToObjCType(moduleName, generic, isOptional)
            /\ objcValue = ToObjCValue(moduleName, generic, value, depth, isOptional)
            /\ objcType = Ok(IF NotRequired THEN <<"id<NSObject> _Nullable">>
                                            ELSE <<"id<NSObject> ">>)
            /\ objcValue = Ok(<<value>>)

C9_Witness ==
    /\ mpc = "called"
    /\ typeAnnotation.type = "ArrayTypeAnnotation"
    /\ typeAnnotation.elementType = <<>>
    /\ ~NotRequired
    /\ depth = 2
    /\ objcValue = Ok(<<"itemValue_1">>)
    /\ objcType = Ok(<<"id<NSObject> ">>)

-----------------------------------------------------------------------------
(* Reading the two segments serializeRegularStruct returns *)

DeclarationEnd == "() const;"
MethodStart == "\ninline "
MethodHead == "() const\n{\n  id const p = _v[@\""
MethodEnd == ";\n}\n"

NumDeclarations == Cardinality(Occurrences(declaration, DeclarationEnd))
NumMethods == Cardinality(Occurrences(methods, MethodStart))

\* The i-th accessor declaration: the text before the accessor's name and the name.
DeclarationEntry(i) ==
    LET end == NthIndex(declaration, DeclarationEnd, i)
        start == IF i = 1
                 THEN NthIndex(declaration, " {\n      ", 1) + 1
                 ELSE NthIndex(declaration, DeclarationEnd, i - 1) + 2
    IN  [returnType |-> SubSeq(declaration, start, end - 2),
         propertyName |-> declaration[end - 1]]

\* The i-th inline method: the text between inline and JS::Native, the
\* accessor's name after the struct's scope, and the returned expression.
MethodEntry(i) ==
    LET start == NthIndex(methods, MethodStart, i)
        head == NthIndex(methods, MethodHead, i)
        end == NthIndex(methods, MethodEnd, i)
    IN  [returnType |-> SubSeq(methods, start + 1, head - 7),
         scope |-> SubSeq(methods, head - 6, head - 2),
         propertyName |-> methods[head - 1],
         key |-> methods[head + 1],
         returnValue |-> SubSeq(methods, head + 3, end - 1)]

-----------------------------------------------------------------------------
(* Claims about serializeRegularStruct, under Spec *)

\* C5: a struct of k properties (all recognized) yields exactly k accessor
\* declarations and exactly k method bodies, the i-th of each being the one of
\* the i-th property.
C5_OnePerPropertyInOrder ==
    pc = "done" =>
        LET properties == struct.properties
            k == Len(properties)
        IN  /\ NumDeclarations = k
            /\ NumMethods = k
            /\ Cardinality(Occurrences(methods, MethodHead)) = k
            /\ Cardinality(Occurrences(methods, MethodEnd)) = k
            /\ \A i \in 1..k :
                  LET type == ToObjCType(moduleName, properties[i].typeAnnotation,
                                         properties[i].optional).str
                      expr == ToObjCValue(moduleName, properties[i].typeAnnotation,
                                          "p", 0, properties[i].optional).str
                      name == GetSafePropertyName(properties[i])
                  IN  /\ DeclarationEntry(i).propertyName = name
                      /\ SubSeq(DeclarationEntry(i).returnType, 1, Len(type)) = type
                      /\ MethodEntry(i).propertyName = name
                      /\ SubSeq(MethodEntry(i).returnType, 1, Len(type)) = type
                      /\ MethodEntry(i).returnValue = expr

C5_Witness ==
    /\ pc = "done"
    /\ Len(struct.properties) = 2
    /\ struct.properties[1].name = "id"
    /\ struct.properties[2].name = "x"
    /\ struct.properties[1].typeAnnotation # struct.properties[2].typeAnnotation
    /\ NumDeclarations = 2
    /\ NumMethods = 2
    /\ DeclarationEntry(1).propertyName = "id_"
    /\ MethodEntry(2).propertyName = "x"

\* C6: when a property carries a tag outside the closed set (at top level, in
\* an array element at any depth, or as an unknown reserved name) the call
\* throws and returns neither a declaration nor a methods segment, even when
\* valid properties come first.
C6_UnrecognizedThrowsWithoutOutput ==
    (pc # "ready" /\ \E i \in DOMAIN struct.properties :
                         Unrecognized(struct.properties[i].typeAnnotation)) =>
        /\ pc = "threw"
        /\ error # <<>>
        /\ declaration = <<>>
        /\ methods = <<>>

C6_Witness ==
    /\ pc = "threw"
    /\ Len(struct.properties) = 2
    /\ ~Unrecognized(struct.properties[1].typeAnnotation)
    /\ Unrecognized(struct.properties[2].typeAnnotation)
    /\ struct.properties[2].typeAnnotation.type = "ArrayTypeAnnotation"
    /\ declaration = <<>>
    /\ methods = <<>>

\* C10: for every property the declaration line and the method body use the
\* same safe accessor name and the same return type text with its padding
\* (no space after a type ending in '*', one space otherwise), and the method
\* is scoped to the struct being declared.
C10_DeclarationMatchesDefinition ==
    pc = "done" =>
        /\ NumDeclarations = NumMethods
        /\ \A i \in 1..NumDeclarations :
              LET declared == DeclarationEntry(i)
                  defined == MethodEntry(i)
                  property == struct.properties[i]
                  type == ToObjCType(moduleName, property.typeAnnotation,
                                     property.optional).str
              IN  /\ declared.propertyName = defined.propertyName
                  /\ declared.propertyName = GetSafePropertyName(property)
                  /\ declared.returnType = defined.returnType
                  /\ declared.returnType =
                        IF type[Len(type)] = "*" THEN type ELSE type \o <<" ">>
                  /\ defined.scope = <<"JS::Native", moduleName, "::", struct.name, "::">>

C10_Witness ==
    /\ pc = "done"
    /\ Len(struct.properties) = 2
    /\ struct.properties[1].typeAnnotation.type = "StringTypeAnnotation"
    /\ struct.properties[2].typeAnnotation.type = "BooleanTypeAnnotation"
    /\ struct.properties[2].optional
    /\ DeclarationEntry(1).returnType = <<"NSString ", "*">>
    /\ MethodEntry(2).returnType = <<"folly::Optional<", "bool", ">", " ">>
    /\ DeclarationEntry(2).returnType = MethodEntry(2).returnType

====
